---- MODULE Spec2Model ----
(***************************************************************************)
(* Logic-Gate-Website: the logic-graph engine of src/js/game.js.           *)
(*                                                                         *)
(* A level text is modelled as a sequence of tokens.  The punctuation the  *)
(* code splits on ("[", "]", "(", ")", ",", "=") and whitespace (" ") are  *)
(* tokens of their own (a " " token is a maximal run of whitespace); a     *)
(* maximal run of other characters (an identifier,                         *)
(* a type tag, a word of the description) is one token.  A JavaScript      *)
(* string is therefore a sequence of tokens, and the empty string is <<>>. *)
(*                                                                         *)
(* A JavaScript value that may be undefined is a sequence of length at     *)
(* most one: <<>> is undefined, <<v>> is the value v.                      *)
(***************************************************************************)
EXTENDS Integers, Sequences, FiniteSets, TLC

VARIABLES levelString, components, description, level, err, last, mapClone, game

vars == <<levelString, components, description, level, err, last, mapClone, game>>

(***************************************************************************)
(* Bounds                                                                  *)
(***************************************************************************)
\* longest operand list handed to AndGate.logic / OrGate.logic directly
MaxOperands == 3
\* deepest chain of nested calculateOutput calls before the engine's call
\* stack is exhausted (RangeError)
MaxDepth == 4

(***************************************************************************)
(* Level texts                                                             *)
(***************************************************************************)
WS == " "

\* "[a=USERINPUT,b=NOT][b(a)][desc]"
NotLevel ==
    <<"[", "a", "=", "USERINPUT", ",", "b", "=", "NOT", "]",
      "[", "b", "(", "a", ")", "]",
      "[", "desc", "]">>

\* game.js:343-345, as sliced and trimmed by the Game constructor
AndLevel ==
    <<"[", "userInput1", "=", "USERINPUT", ",", WS, "userInput2", "=", "USERINPUT",
      ",", WS, "andGate", "=", "AND", "]", WS,
      "[", "andGate", "(", "userInput1", ",", "userInput2", ")", "]", WS,
      "[", "This", WS, "is", WS, "an", WS, "and", WS, "gate", "]">>

\* an unbounded gate listing three children, and over-supplied XOR and NOT
OverLevel ==
    <<"[", "a", "=", "USERINPUT", ",", "b", "=", "TRUE", ",", "c", "=", "false", ",",
      "o", "=", "Or", ",", "x", "=", "XOR", ",", "n", "=", "not", "]",
      "[", "o", "(", "a", ",", "b", ",", "c", ")",
           "x", "(", "a", ",", "b", ",", "c", ")",
           "n", "(", "a", ",", "b", ")", "]",
      "[", "over", "]">>

\* an under-wired XOR and an unwired AND, left for later addInput calls
UnderLevel ==
    <<"[", "a", "=", "USERINPUT", ",", "b", "=", "TRUE", ",",
      "x", "=", "xor", ",", "g", "=", "and", "]",
      "[", "x", "(", "a", ")", "]",
      "[", "under", "]">>

\* gate x has gate y as input and gate y has gate x as input
CycleLevel ==
    <<"[", "x", "=", "NOT", ",", "y", "=", "NOT", "]",
      "[", "x", "(", "y", ")", ",", "y", "(", "x", ")", "]",
      "[", "cycle", "]">>

\* an unrecognised type tag after a good declaration
FooLevel ==
    <<"[", "a", "=", "USERINPUT", ",", "z", "=", "FOO", ",", "b", "=", "NOT", "]",
      "[", "b", "(", "a", ")", "]",
      "[", "foo", "]">>

\* "c(a)" when c was never declared
BadHostLevel ==
    <<"[", "a", "=", "USERINPUT", ",", "b", "=", "NOT", "]",
      "[", "b", "(", "a", ")", "c", "(", "a", ")", "]",
      "[", "host", "]">>

\* a child that was never declared, after a declared one
BadChildLevel ==
    <<"[", "a", "=", "USERINPUT", ",", "x", "=", "XOR", "]",
      "[", "x", "(", "a", ",", "c", ")", "]",
      "[", "child", "]">>

\* a declaration without "="
NoEqualsLevel ==
    <<"[", "a", "]", "[", "]", "[", "noeq", "]">>

\* wiring onto a component that is not a gate
LeafHostLevel ==
    <<"[", "a", "=", "USERINPUT", ",", "b", "=", "TRUE", "]",
      "[", "a", "(", "b", ")", "]",
      "[", "leaf", "]">>

\* a NOT and a XOR with no wiring at all
ZeroLevel ==
    <<"[", "n", "=", "NOT", ",", "x", "=", "XOR", "]",
      "[", "]",
      "[", "zero", "]">>

LevelTexts ==
    {NotLevel, AndLevel, OverLevel, UnderLevel, CycleLevel, FooLevel,
     BadHostLevel, BadChildLevel, NoEqualsLevel, LeafHostLevel, ZeroLevel}

(***************************************************************************)
(* JavaScript string operations on token sequences                         *)
(***************************************************************************)
\* String.prototype.split(sep): the pieces between the separators
RECURSIVE Split(_, _)
Split(s, sep) ==
    IF \A i \in 1..Len(s) : s[i] # sep
    THEN <<s>>
    ELSE LET k == CHOOSE i \in 1..Len(s) :
                      s[i] = sep /\ \A j \in 1..(i - 1) : s[j] # sep
         IN  <<SubSeq(s, 1, k - 1)>> \o Split(SubSeq(s, k + 1, Len(s)), sep)

\* String.prototype.indexOf(t): 0-based position of the first t, or -1
IndexOf(s, t) ==
    IF \A i \in 1..Len(s) : s[i] # t
    THEN -1
    ELSE (CHOOSE i \in 1..Len(s) : s[i] = t /\ \A j \in 1..(i - 1) : s[j] # t) - 1

\* String.prototype.substring(from): a negative index counts as 0
SubstringFrom(s, from) ==
    LET f == IF from < 0 THEN 0 ELSE from
    IN  SubSeq(s, f + 1, Len(s))

\* String.prototype.substring(0, to): a negative index counts as 0
SubstringTo(s, to) ==
    LET t == IF to < 0 THEN 0 ELSE to
    IN  SubSeq(s, 1, t)

\* replace(/\s+/g, '')
StripWhitespace(s) == SelectSeq(s, LAMBDA t : t # WS)

\* replaceAll("[", "")
RemoveBrackets(s) == SelectSeq(s, LAMBDA t : t # "[")

\* String.prototype.toLowerCase on one word
LowerWord(w) ==
    CASE w \in {"TRUE", "True", "true"} -> "true"
      [] w \in {"FALSE", "False", "false"} -> "false"
      [] w \in {"USERINPUT", "UserInput", "userinput"} -> "userinput"
      [] w \in {"NOT", "Not", "not"} -> "not"
      [] w \in {"AND", "And", "and"} -> "and"
      [] w \in {"OR", "Or", "or"} -> "or"
      [] w \in {"XOR", "Xor", "xor"} -> "xor"
      [] w = "FOO" -> "foo"
      [] OTHER -> w

ToLowerCase(s) == [i \in 1..Len(s) |-> LowerWord(s[i])]

(***************************************************************************)
(* Components                                                              *)
(***************************************************************************)
Undefined == <<>>

Null == [type |-> "null"]

EmptyMap == [k \in {} |-> Null]

GateTypes == {"NotGate", "AndGate", "OrGate", "XorGate"}

StaticInput(componentId, state) ==
    [type |-> "StaticInput", componentId |-> componentId, state |-> state]

UserInput(componentId) ==
    [type |-> "UserInput", componentId |-> componentId, state |-> FALSE]

LogicGate(type, componentId, inputLimit) ==
    [type |-> type, componentId |-> componentId, inputSet |-> <<>>,
     inputLimit |-> inputLimit, stateSnapshot |-> Undefined]

NotGate(componentId) == LogicGate("NotGate", componentId, 1)

AndGate(componentId) == LogicGate("AndGate", componentId, 0)

OrGate(componentId) == LogicGate("OrGate", componentId, 0)

XorGate(componentId) == LogicGate("XorGate", componentId, 2)

IsGate(c) == c.type \in GateTypes

IsLeaf(c) == c.type \in {"StaticInput", "UserInput"}

constructLogicGate(componentId, gateIdentifier) ==
    LET tag == ToLowerCase(gateIdentifier)
    IN  CASE tag = <<"not">> -> NotGate(componentId)
          [] tag = <<"and">> -> AndGate(componentId)
          [] tag = <<"or">> -> OrGate(componentId)
          [] tag = <<"xor">> -> XorGate(componentId)
          [] OTHER -> Null

\* Map.prototype.set
MapSet(m, k, v) == [x \in DOMAIN m \cup {k} |-> IF x = k THEN v ELSE m[x]]

\* Set.prototype.add on an insertion-ordered set
SetAdd(s, x) == IF \E i \in 1..Len(s) : s[i] = x THEN s ELSE Append(s, x)

\* addInput with the limit test off by one (<= for <)
addInput_OffByOne(gate, input) ==
    IF Len(gate.inputSet) <= gate.inputLimit
    THEN [gate EXCEPT !.inputSet = SetAdd(gate.inputSet, input)]
    ELSE gate

addInput(gate, input) ==
    IF Len(gate.inputSet) < gate.inputLimit
    THEN [gate EXCEPT !.inputSet = SetAdd(gate.inputSet, input)]
    ELSE gate

(***************************************************************************)
(* Gate reductions and evaluation                                          *)
(***************************************************************************)
\* operand i (0-based) of a JavaScript array: undefined past the end, and
\* undefined is falsy and differs from true and from false
IsTrue(inputs, i) == i < Len(inputs) /\ inputs[i + 1] = TRUE

IsFalse(inputs, i) == i < Len(inputs) /\ inputs[i + 1] = FALSE

NotLogic(inputs) == ~IsTrue(inputs, 0)

\* the for loop of AndGate.logic from index i on
RECURSIVE AndLoop(_, _)
AndLoop(inputs, i) ==
    IF i < Len(inputs)
    THEN IF IsFalse(inputs, i) THEN FALSE ELSE AndLoop(inputs, i + 1)
    ELSE TRUE

AndLogic(inputs) == AndLoop(inputs, 0)

\* the for loop of OrGate.logic from index i on, isTrue still false
RECURSIVE OrLoop(_, _)
OrLoop(inputs, i) ==
    IF i < Len(inputs)
    THEN IF IsTrue(inputs, i) THEN TRUE ELSE OrLoop(inputs, i + 1)
    ELSE FALSE

OrLogic(inputs) == OrLoop(inputs, 0)

\* XorGate.logic as an inclusive or
XorLogic_InclusiveOr(inputs) == IsTrue(inputs, 0) \/ IsTrue(inputs, 1)

XorLogic(inputs) ==
    LET input1 == IsTrue(inputs, 0)
        input2 == IsTrue(inputs, 1)
    IN  (input1 /\ ~input2) \/ (~input1 /\ input2)

\* gate.logic, by the class of the gate
Logic(type, inputs) ==
    CASE type = "NotGate" -> NotLogic(inputs)
      [] type = "AndGate" -> AndLogic(inputs)
      [] type = "OrGate" -> OrLogic(inputs)
      [] type = "XorGate" -> XorLogic(inputs)

\* Array.from(this.#inputSet.values): `values` is the method itself, never
\* called.  A function object is not iterable and its length is 0, so the
\* array is empty whatever the set holds.
ArrayFromValues(inputSet) == <<>>

\* padding that leaves the operand list of an unbounded gate empty
RECURSIVE Pad_BoundedOnly(_, _)
Pad_BoundedOnly(results, inputLimit) ==
    IF inputLimit > 0 /\ Len(results) < inputLimit
    THEN Pad_BoundedOnly(Append(results, FALSE), inputLimit)
    ELSE results

\* "Filling unused input space with false values"
RECURSIVE Pad(_, _)
Pad(results, inputLimit) ==
    IF inputLimit > 0
    THEN IF Len(results) < inputLimit
         THEN Pad(Append(results, FALSE), inputLimit)
         ELSE results
    ELSE IF Len(results) = 0 THEN <<FALSE>> ELSE results

\* calculateOutput(logic) on the gate with the given id, depth calls deep:
\* the components afterwards, the returned value, the operand list handed to
\* logic and the error thrown
RECURSIVE calculateOutput(_, _, _, _)
RECURSIVE GatherInputs(_, _, _, _, _)
\* calculateOutput that returns the output without storing it
calculateOutput_NoSnapshot(comps, id, logic, depth) ==
    IF depth > MaxDepth
    THEN [components |-> comps, ret |-> Undefined, results |-> <<>>,
          upstream |-> <<>>, err |-> "RangeError"]
    ELSE LET g == GatherInputs(comps, ArrayFromValues(comps[id].inputSet), 1,
                               <<>>, depth)
         IN  IF g.err # "none"
             THEN [components |-> g.components, ret |-> Undefined,
                   results |-> g.results, upstream |-> g.upstream, err |-> g.err]
             ELSE LET results == Pad(g.results, comps[id].inputLimit)
                      output == Logic(logic, results)
                  IN  [components |-> g.components,
                       ret |-> <<output>>,
                       results |-> results,
                       upstream |-> g.upstream,
                       err |-> "none"]

\* upstream lists the gates the call recursed into, each with the value it
\* returned
calculateOutput(comps, id, logic, depth) ==
    IF depth > MaxDepth
    THEN [components |-> comps, ret |-> Undefined, results |-> <<>>,
          upstream |-> <<>>, err |-> "RangeError"]
    ELSE LET g == GatherInputs(comps, ArrayFromValues(comps[id].inputSet), 1,
                               <<>>, depth)
         IN  IF g.err # "none"
             THEN [components |-> g.components, ret |-> Undefined,
                   results |-> g.results, upstream |-> g.upstream, err |-> g.err]
             ELSE LET results == Pad(g.results, comps[id].inputLimit)
                      output == Logic(logic, results)
                  IN  [components |->
                           [g.components EXCEPT ![id].stateSnapshot = <<output>>],
                       ret |-> <<output>>,
                       results |-> results,
                       upstream |-> g.upstream,
                       err |-> "none"]

\* the for loop of calculateOutput from array position i on
GatherInputs(comps, array, i, results, depth) ==
    IF i > Len(array)
    THEN [components |-> comps, results |-> results, upstream |-> <<>>,
          err |-> "none"]
    ELSE LET input == array[i]
         IN  IF IsGate(comps[input])
             THEN LET r == calculateOutput(comps, input, comps[input].type, depth + 1)
                  IN  IF r.err # "none"
                      THEN [components |-> r.components, results |-> results,
                            upstream |-> r.upstream, err |-> r.err]
                      ELSE LET rest == GatherInputs(r.components, array, i + 1,
                                                    Append(results, r.ret[1]), depth)
                           IN  [rest EXCEPT !.upstream =
                                    r.upstream \o <<[id |-> input, value |-> r.ret[1]]>>
                                        \o rest.upstream]
             ELSE IF IsLeaf(comps[input])
             THEN GatherInputs(comps, array, i + 1,
                               Append(results, comps[input].state), depth)
             ELSE [components |-> comps, results |-> results, upstream |-> <<>>,
                   err |-> "UnsupportedComponentType"]

\* getOutput of any component
getOutput(c) == IF IsGate(c) THEN c.stateSnapshot ELSE <<c.state>>

\* ToggleOutput that sets the value instead of flipping it
ToggleOutput_SetTrue(c) == [c EXCEPT !.state = TRUE]

\* UserInput.ToggleOutput
ToggleOutput(c) == [c EXCEPT !.state = (c.state # TRUE)]

(***************************************************************************)
(* Level construction pipeline                                             *)
(***************************************************************************)
\* the array of segments, or a TypeError when the text has no "]" at all
parseLevelString(text) ==
    LET arr == Split(text, "]")
    IN  IF Len(arr) < 2
        THEN [array |-> arr, err |-> "TypeError"]
        ELSE [array |-> [i \in 1..Len(arr) |->
                            RemoveBrackets(IF i <= 2 THEN StripWhitespace(arr[i])
                                           ELSE arr[i])],
              err |-> "none"]

\* the component a declaration's type tag makes, or Null
NewComponent(keyValuePair) ==
    LET tag == ToLowerCase(keyValuePair[2])
    IN  IF tag = <<"true">> THEN StaticInput(keyValuePair[1], TRUE)
        ELSE IF tag = <<"false">> THEN StaticInput(keyValuePair[1], FALSE)
        ELSE IF tag = <<"userinput">> THEN UserInput(keyValuePair[1])
        ELSE constructLogicGate(keyValuePair[1], keyValuePair[2])

\* #createComponents' forEach that drops an unsupported declaration instead
\* of throwing
RECURSIVE CreateEach_SkipNull(_, _, _)
CreateEach_SkipNull(comps, elements, i) ==
    IF i > Len(elements)
    THEN [components |-> comps, err |-> "none"]
    ELSE LET keyValuePair == Split(elements[i], "=")
         IN  IF Len(keyValuePair) < 2
             THEN [components |-> comps, err |-> "TypeError"]
             ELSE LET newComponent == NewComponent(keyValuePair)
                  IN  CreateEach_SkipNull(
                          IF newComponent # Null
                          THEN MapSet(comps, keyValuePair[1], newComponent)
                          ELSE comps,
                          elements, i + 1)

\* the forEach of #createComponents, from element i on
RECURSIVE CreateEach(_, _, _)
CreateEach(comps, elements, i) ==
    IF i > Len(elements)
    THEN [components |-> comps, err |-> "none"]
    ELSE LET keyValuePair == Split(elements[i], "=")
         IN  IF Len(keyValuePair) < 2
             THEN [components |-> comps, err |-> "TypeError"]
             ELSE LET newComponent == NewComponent(keyValuePair)
                  IN  IF newComponent # Null
                      THEN CreateEach(MapSet(comps, keyValuePair[1], newComponent),
                                      elements, i + 1)
                      ELSE [components |-> comps, err |-> "UnknownGateType"]

\* #createComponents that keeps the component instance an id already has
createComponents_KeepExisting(comps, componentString) ==
    LET c == CreateEach(EmptyMap, Split(componentString, ","), 1)
    IN  [components |-> [k \in DOMAIN c.components |->
                            IF k \in DOMAIN comps /\ comps[k].type = c.components[k].type
                            THEN comps[k]
                            ELSE c.components[k]],
         err |-> c.err]

\* comps is the map before the call; the code clears it first
createComponents(comps, componentString) ==
    CreateEach(EmptyMap, Split(componentString, ","), 1)

\* the inner forEach of #createConnections passing over a missing child
\* instead of throwing
RECURSIVE ConnectChildren_SkipMissing(_, _, _, _)
ConnectChildren_SkipMissing(comps, hostId, inputArray, j) ==
    IF j > Len(inputArray)
    THEN [components |-> comps, err |-> "none"]
    ELSE LET connectionChildId == inputArray[j]
         IN  IF connectionChildId \notin DOMAIN comps
             THEN ConnectChildren_SkipMissing(comps, hostId, inputArray, j + 1)
             ELSE IF ~IsGate(comps[hostId])
             THEN [components |-> comps, err |-> "TypeError"]
             ELSE ConnectChildren_SkipMissing(
                      [comps EXCEPT ![hostId] = addInput(@, connectionChildId)],
                      hostId, inputArray, j + 1)

\* the inner forEach of #createConnections, from child j on
RECURSIVE ConnectChildren(_, _, _, _)
ConnectChildren(comps, hostId, inputArray, j) ==
    IF j > Len(inputArray)
    THEN [components |-> comps, err |-> "none"]
    ELSE LET connectionChildId == inputArray[j]
         IN  IF connectionChildId \notin DOMAIN comps
             THEN [components |-> comps, err |-> "UnknownComponentReference"]
             ELSE IF ~IsGate(comps[hostId])
             THEN [components |-> comps, err |-> "TypeError"]
             ELSE ConnectChildren(
                      [comps EXCEPT ![hostId] = addInput(@, connectionChildId)],
                      hostId, inputArray, j + 1)

\* the outer forEach of #createConnections, from element i on
RECURSIVE ConnectEach(_, _, _)
ConnectEach(comps, elements, i) ==
    IF i > Len(elements)
    THEN [components |-> comps, err |-> "none"]
    ELSE IF elements[i] = <<>>
    THEN ConnectEach(comps, elements, i + 1)
    ELSE LET element == IF IndexOf(elements[i], ",") = 0
                        THEN SubstringFrom(elements[i], 1)
                        ELSE elements[i]
             connectionHostId == SubstringTo(element, IndexOf(element, "("))
         IN  IF connectionHostId \notin DOMAIN comps
             THEN [components |-> comps, err |-> "UnknownComponentReference"]
             ELSE LET inputArray ==
                          Split(SubstringFrom(element, IndexOf(element, "(") + 1), ",")
                      r == ConnectChildren(comps, connectionHostId, inputArray, 1)
                  IN  IF r.err # "none"
                      THEN r
                      ELSE ConnectEach(r.components, elements, i + 1)

createConnections(comps, connectionString) ==
    ConnectEach(comps, Split(StripWhitespace(connectionString), ")"), 1)

\* Level.reset on an object whose fields are comps and desc: the fields
\* afterwards, and the error thrown on the way ("none" if none)
reset(comps, desc, text) ==
    LET p == parseLevelString(text)
    IN  IF p.err # "none"
        THEN [components |-> comps, description |-> desc, err |-> p.err]
        ELSE LET c == createComponents(comps, p.array[1])
             IN  IF c.err # "none"
                 THEN [components |-> c.components, description |-> desc,
                       err |-> c.err]
                 ELSE LET w == createConnections(c.components, p.array[2])
                      IN  IF w.err # "none"
                          THEN [components |-> w.components, description |-> desc,
                                err |-> w.err]
                          ELSE [components |-> w.components,
                                description |-> IF Len(p.array) >= 3
                                                THEN <<p.array[3]>>
                                                ELSE Undefined,
                                err |-> "none"]

(***************************************************************************)
(* State machine                                                           *)
(***************************************************************************)
NoCall == [op |-> "none"]

\* no Game object
NoGame == [pc |-> "none"]

Init ==
    /\ levelString \in LevelTexts
    /\ components = EmptyMap
    /\ description = Undefined
    /\ level = "none"
    /\ err = "none"
    /\ last = NoCall
    /\ mapClone = Undefined
    /\ game = NoGame

\* new Level(levelString): the fields start empty and the constructor calls
\* reset(); when it throws, the caller gets no Level object
NewLevel ==
    /\ level = "none"
    /\ LET r == reset(EmptyMap, Undefined, levelString)
       IN  /\ components' = r.components
           /\ description' = r.description
           /\ err' = r.err
           /\ level' = IF r.err = "none" THEN "built" ELSE "failed"
    /\ last' = [op |-> "new Level"]
    /\ UNCHANGED <<levelString, mapClone, game>>

\* the operand lists a caller hands to gate.logic directly (displayLevel)
RECURSIVE BoolSeqs(_)
BoolSeqs(n) ==
    IF n = 0 THEN {<<>>}
    ELSE {Append(s, b) : s \in BoolSeqs(n - 1), b \in BOOLEAN}

Operands(type) ==
    CASE type = "NotGate" -> BoolSeqs(1)
      [] type = "XorGate" -> BoolSeqs(2)
      [] OTHER -> UNION {BoolSeqs(n) : n \in 0..MaxOperands}

UserInputIds == {id \in DOMAIN components : components[id].type = "UserInput"}

GateIds == {id \in DOMAIN components : IsGate(components[id])}

\* userInput.ToggleOutput()
Toggle(id) ==
    /\ level = "built"
    /\ id \in UserInputIds
    /\ components' = [components EXCEPT ![id] = ToggleOutput(@)]
    /\ last' = [op |-> "ToggleOutput", id |-> id,
                ret |-> <<ToggleOutput(components[id]).state>>]
    /\ err' = "none"
    /\ UNCHANGED <<levelString, description, level, mapClone, game>>

\* gate.calculateOutput(gate.logic)
Evaluate(id) ==
    /\ level = "built"
    /\ id \in GateIds
    /\ LET r == calculateOutput(components, id, components[id].type, 0)
       IN  /\ components' = r.components
           /\ err' = r.err
           /\ last' = [op |-> "calculateOutput", id |-> id, ret |-> r.ret,
                       results |-> r.results, upstream |-> r.upstream]
    /\ UNCHANGED <<levelString, description, level, mapClone, game>>

\* component.getOutput()
GetOutput(id) ==
    /\ level = "built"
    /\ id \in DOMAIN components
    /\ last' = [op |-> "getOutput", id |-> id, ret |-> getOutput(components[id])]
    /\ err' = "none"
    /\ UNCHANGED <<levelString, components, description, level, mapClone, game>>

\* gate.addInput(child), called after construction with one of the level's
\* sources (StaticInput or UserInput) as the child
AddInput(hostId, childId) ==
    /\ level = "built"
    /\ hostId \in GateIds
    /\ childId \in DOMAIN components
    /\ IsLeaf(components[childId])
    /\ components' = [components EXCEPT ![hostId] = addInput(@, childId)]
    /\ last' = [op |-> "addInput", id |-> hostId, child |-> childId]
    /\ err' = "none"
    /\ UNCHANGED <<levelString, description, level, mapClone, game>>

\* An entry of a Map returned by getComponents holds a reference: either to
\* the object the level's own map holds under the same key ("level"), or to
\* an object the level's map does not hold ("own", with the object's fields).
LevelRef == [ref |-> "level"]

OwnRef(obj) == [ref |-> "own", obj |-> obj]

\* new Map(this.#components): the same keys, the same objects
getComponents(comps) == [k \in DOMAIN comps |-> LevelRef]

\* the object an entry of a returned Map refers to
Deref(clone, comps, k) ==
    IF clone[k].ref = "level" THEN comps[k] ELSE clone[k].obj

\* a returned Map once the level has replaced its components: its entries
\* still refer to the old objects (comps), which the level no longer holds
Detach(clone, comps) ==
    IF clone = Undefined THEN Undefined
    ELSE << [k \in DOMAIN clone[1] |-> OwnRef(Deref(clone[1], comps, k))] >>

\* keys a caller sets or deletes in the returned Map
CallerKeys == {<<"a">>, <<"zz">>}

\* level.getComponents()
GetComponents ==
    /\ level = "built"
    /\ mapClone' = <<getComponents(components)>>
    /\ last' = [op |-> "getComponents"]
    /\ err' = "none"
    /\ UNCHANGED <<levelString, components, description, level, game>>

\* mapClone.set(key, new StaticInput(key, true)) on the returned Map
CloneSet(key) ==
    /\ mapClone # Undefined
    /\ mapClone' = <<MapSet(mapClone[1], key, OwnRef(StaticInput(key, TRUE)))>>
    /\ last' = [op |-> "mapClone.set", id |-> key]
    /\ err' = "none"
    /\ UNCHANGED <<levelString, components, description, level, game>>

\* mapClone.delete(key) on the returned Map
CloneDelete(key) ==
    /\ mapClone # Undefined
    /\ key \in DOMAIN mapClone[1]
    /\ mapClone' = <<[k \in DOMAIN mapClone[1] \ {key} |-> mapClone[1][k]]>>
    /\ last' = [op |-> "mapClone.delete", id |-> key]
    /\ err' = "none"
    /\ UNCHANGED <<levelString, components, description, level, game>>

\* mapClone.get(key).ToggleOutput() on a UserInput of the returned Map
CloneToggle(key) ==
    /\ mapClone # Undefined
    /\ key \in DOMAIN mapClone[1]
    /\ Deref(mapClone[1], components, key).type = "UserInput"
    /\ LET toggled == ToggleOutput(Deref(mapClone[1], components, key))
       IN  /\ IF mapClone[1][key].ref = "level"
              THEN /\ components' = [components EXCEPT ![key] = toggled]
                   /\ mapClone' = mapClone
              ELSE /\ components' = components
                   /\ mapClone' = <<[mapClone[1] EXCEPT ![key] = OwnRef(toggled)]>>
           /\ last' = [op |-> "mapClone.get.ToggleOutput", id |-> key,
                       ret |-> <<toggled.state>>]
    /\ err' = "none"
    /\ UNCHANGED <<levelString, description, level, game>>

\* level.reset()
Reset ==
    /\ level = "built"
    /\ LET r == reset(components, description, levelString)
       IN  /\ components' = r.components
           /\ description' = r.description
           /\ err' = r.err
    /\ last' = [op |-> "reset"]
    /\ mapClone' = Detach(mapClone, components)
    /\ UNCHANGED <<levelString, level, game>>

\* level.getDescription()
GetDescription ==
    /\ level = "built"
    /\ last' = [op |-> "getDescription", ret |-> description]
    /\ err' = "none"
    /\ UNCHANGED <<levelString, components, description, level, mapClone, game>>

\* gate.logic(inputs) on a gate of the given class, as displayLevel calls it
ApplyLogic(type, inputs) ==
    /\ last' = [op |-> "logic", type |-> type, inputs |-> inputs,
                ret |-> <<Logic(type, inputs)>>]
    /\ UNCHANGED <<levelString, components, description, level, err, mapClone, game>>

\* the keys of the Map getComponents returned, if any
CloneKeys == IF mapClone = Undefined THEN {} ELSE DOMAIN mapClone[1]

Next ==
    \/ NewLevel
    \/ \E id \in DOMAIN components : Toggle(id)
    \/ \E id \in DOMAIN components : Evaluate(id)
    \/ \E id \in DOMAIN components : GetOutput(id)
    \/ \E hostId \in DOMAIN components, childId \in DOMAIN components :
           AddInput(hostId, childId)
    \/ Reset
    \/ GetDescription
    \/ GetComponents
    \/ \E key \in CallerKeys : CloneSet(key)
    \/ \E key \in CallerKeys : CloneDelete(key)
    \/ \E key \in CloneKeys : CloneToggle(key)

Spec == Init /\ [][Next]_vars

\* the gate reductions on their own: every operand list, applied directly
\* the draft's reductions (src/unnamed/part_000): each walks the operands
\* with inputs.forEach(callback); a return inside the callback ends that
\* one call of the callback and its value is discarded by forEach
RECURSIVE DraftForEachSkip(_, _)
DraftForEachSkip(inputs, i) ==
    IF i < Len(inputs) THEN DraftForEachSkip(inputs, i + 1) ELSE TRUE

\* the draft's AndGate.logic: the callback only returns, then return true
DraftAndLogic(inputs) == DraftForEachSkip(inputs, 0) /\ TRUE

\* the draft's OrGate.logic: the callback only returns, then return false
DraftOrLogic(inputs) == DraftForEachSkip(inputs, 0) /\ FALSE

\* the forEach of the draft's XorGate.logic from index i on: the callback
\* sets isTrue on a true operand unless it is set already
RECURSIVE DraftXorEach(_, _, _)
DraftXorEach(inputs, i, isTrue) ==
    IF i < Len(inputs)
    THEN IF IsTrue(inputs, i)
         THEN IF isTrue
              THEN DraftXorEach(inputs, i + 1, isTrue)
              ELSE DraftXorEach(inputs, i + 1, TRUE)
         ELSE DraftXorEach(inputs, i + 1, isTrue)
    ELSE isTrue

DraftXorLogic(inputs) == DraftXorEach(inputs, 0, FALSE)

DraftLogic(type, inputs) ==
    CASE type = "AndGate" -> DraftAndLogic(inputs)
      [] type = "OrGate" -> DraftOrLogic(inputs)
      [] type = "XorGate" -> DraftXorLogic(inputs)
      [] OTHER -> NotLogic(inputs)

\* gate.logic(inputs) on a gate of the draft
ApplyDraftLogic(type, inputs) ==
    /\ last' = [op |-> "draftLogic", type |-> type, inputs |-> inputs,
                ret |-> <<DraftLogic(type, inputs)>>]
    /\ UNCHANGED <<levelString, components, description, level, err, mapClone, game>>

LogicNext ==
    \/ \E type \in GateTypes : \E inputs \in Operands(type) : ApplyLogic(type, inputs)
    \/ \E type \in GateTypes : \E inputs \in Operands(type) : ApplyDraftLogic(type, inputs)

LogicSpec == Init /\ [][LogicNext]_vars

(***************************************************************************)
(* Game: the level list and the current level                              *)
(***************************************************************************)
\* the level text hard-coded in the Game constructor
HardcodedGameString ==
    <<WS, "[", "userInput1", "=", "USERINPUT", ",", WS, "notGate", "=",
      "NOT", "]", WS, "[", "notGate", "(", "userInput1", ")", "]", WS, "[",
      "This", WS, "is", WS, "a", WS, "not", WS, "gate", ",", WS, "which", WS,
      "inverts", WS, "the", WS, "input", "]", WS, "[", "userInput1", "=",
      "USERINPUT", ",", WS, "userInput2", "=", "USERINPUT", ",", WS,
      "andGate", "=", "AND", "]", WS, "[", "andGate", "(", "userInput1", ",",
      "userInput2", ")", "]", WS, "[", "This", WS, "is", WS, "an", WS, "and",
      WS, "gate", ",", WS, "which", WS, "will", WS, "only", WS, "return", WS,
      "true", WS, "if", WS, "both", WS, "inputs", WS, "are", WS, "true", "]",
      WS, "[", "userInput1", "=", "USERINPUT", ",", WS, "userInput2", "=",
      "USERINPUT", ",", WS, "orGate", "=", "OR", "]", WS, "[", "orGate", "(",
      "userInput1", ",", "userInput2", ")", "]", WS, "[", "Description", "]",
      WS, "[", "userInput1", "=", "USERINPUT", ",", WS, "userInput2", "=",
      "USERINPUT", ",", WS, "xorGate", "=", "XOR", "]", WS, "[", "xorGate",
      "(", "userInput1", ",", "userInput2", ")", "]", WS, "[", "Description",
      "]", WS>>

\* one block and nothing else
OneBlock == NotLevel

\* two blocks back to back and a trailing piece with two closing brackets
TwoBlocksAndTail ==
    NotLevel \o ZeroLevel \o <<WS, "[", "a", "=", "NOT", "]", "[", "]", "tail">>

\* a block followed by a piece with one closing bracket
BlockAndTail == <<WS>> \o UnderLevel \o <<WS, "[", "x", "]", WS>>

\* fewer than three closing brackets
NoBlock == <<"[", "a", "=", "TRUE", "]", WS, "[", "]", WS, "[", "never", "closed">>

\* three blocks separated by whitespace
ThreeBlocks == AndLevel \o <<WS>> \o OverLevel \o <<WS>> \o CycleLevel \o <<WS>>

GameTexts ==
    {HardcodedGameString, OneBlock, TwoBlocksAndTail, BlockAndTail, ThreeBlocks,
     NoBlock, <<>>}

\* String.prototype.indexOf(t, from): 0-based position of the first t at or
\* after position from, or -1
IndexOfFrom(s, t, from) ==
    LET k == IndexOf(SubstringFrom(s, from), t)
    IN  IF k = -1 THEN -1 ELSE from + k

\* String.prototype.trim
RECURSIVE Trim(_)
Trim(s) ==
    IF Len(s) > 0 /\ s[1] = WS THEN Trim(Tail(s))
    ELSE IF Len(s) > 0 /\ s[Len(s)] = WS THEN Trim(SubSeq(s, 1, Len(s) - 1))
    ELSE s

\* the slice that omits the closing bracket the cursor has just passed
LevelSlice_BeforeBracket(gameString, cursor) ==
    Trim(SubstringTo(gameString, cursor - 1))

\* gameString.substring(0, cursor).trim()
LevelSlice(gameString, cursor) == Trim(SubstringTo(gameString, cursor))

\* new Level(slice): the object, and the error its constructor threw
NewLevelObject(slice) ==
    LET r == reset(EmptyMap, Undefined, slice)
    IN  [object |-> [levelString |-> slice, components |-> r.components,
                     description |-> r.description],
         err |-> r.err]

Min(a, b) == IF a < b THEN a ELSE b

Max(a, b) == IF a > b THEN a ELSE b

GameInit ==
    /\ levelString = NotLevel
    /\ components = EmptyMap
    /\ description = Undefined
    /\ level = "none"
    /\ err = "none"
    /\ last = NoCall
    /\ mapClone = Undefined
    /\ \E text \in GameTexts : game = [pc |-> "new", source |-> text]

LevelVars == <<levelString, components, description, level, err, last, mapClone>>

\* new Game(canvas) up to the while loop
GameStart ==
    /\ game.pc = "new"
    /\ game' = [pc |-> "loop", source |-> game.source, gameString |-> game.source,
                cursor |-> 0, bracketsFound |-> 0, levels |-> <<>>,
                currentLevel |-> 0, err |-> "none", op |-> "new Game"]
    /\ UNCHANGED LevelVars

\* one iteration of the while (true) loop of the Game constructor
GameLoop ==
    /\ game.pc = "loop"
    /\ IF game.bracketsFound = 3
       THEN LET newLevel == NewLevelObject(LevelSlice(game.gameString, game.cursor))
            IN  IF newLevel.err # "none"
                THEN game' = [game EXCEPT !.pc = "thrown", !.err = newLevel.err]
                ELSE game' = [game EXCEPT
                                 !.bracketsFound = 0,
                                 !.levels = Append(@, newLevel.object),
                                 !.gameString = SubstringFrom(@, game.cursor),
                                 !.cursor = 0]
       ELSE LET cursor == IndexOfFrom(game.gameString, "]", game.cursor) + 1
            IN  IF cursor = 0
                THEN game' = [game EXCEPT !.cursor = cursor, !.pc = "ready"]
                ELSE game' = [game EXCEPT !.cursor = cursor,
                                          !.bracketsFound = @ + 1]
    /\ UNCHANGED LevelVars

\* game.nextLevel()
NextLevel ==
    /\ game.pc = "ready"
    /\ game' = [game EXCEPT
                   !.currentLevel = Min(Len(game.levels), game.currentLevel + 1),
                   !.err = "none", !.op = "nextLevel"]
    /\ UNCHANGED LevelVars

\* game.previousLevel()
PreviousLevel ==
    /\ game.pc = "ready"
    /\ game' = [game EXCEPT !.currentLevel = Max(0, game.currentLevel - 1),
                            !.err = "none", !.op = "previousLevel"]
    /\ UNCHANGED LevelVars

\* game.resetLevel(): this.#levels[this.#currentLevel] is undefined past the
\* end of the array, and calling reset on it is a TypeError
ResetLevel ==
    /\ game.pc = "ready"
    /\ IF game.currentLevel + 1 \in 1..Len(game.levels)
       THEN LET lv == game.levels[game.currentLevel + 1]
                r == reset(lv.components, lv.description, lv.levelString)
            IN  game' = [game EXCEPT
                            !.levels[game.currentLevel + 1] =
                                [levelString |-> lv.levelString,
                                 components |-> r.components,
                                 description |-> r.description],
                            !.err = r.err, !.op = "resetLevel"]
       ELSE game' = [game EXCEPT !.err = "TypeError", !.op = "resetLevel"]
    /\ UNCHANGED LevelVars

GameNext ==
    \/ GameStart
    \/ GameLoop
    \/ NextLevel
    \/ PreviousLevel
    \/ ResetLevel

GameSpec == GameInit /\ [][GameNext]_vars

(***************************************************************************)
(* What a level text declares, read off the text itself                    *)
(***************************************************************************)
KnownTags ==
    {<<"true">>, <<"false">>, <<"userinput">>, <<"not">>, <<"and">>, <<"or">>,
     <<"xor">>}

\* the id=tag pairs of the first bracket pair
DeclPairs(text) ==
    LET seg == RemoveBrackets(StripWhitespace(Split(text, "]")[1]))
        elements == Split(seg, ",")
    IN  [i \in 1..Len(elements) |-> Split(elements[i], "=")]

WellFormedDecls(text) ==
    \A i \in 1..Len(DeclPairs(text)) : Len(DeclPairs(text)[i]) >= 2

DeclaredIds(text) ==
    {DeclPairs(text)[i][1] : i \in 1..Len(DeclPairs(text))}

HasUnknownTag(text) ==
    \E i \in 1..Len(DeclPairs(text)) :
        /\ Len(DeclPairs(text)[i]) >= 2
        /\ ToLowerCase(DeclPairs(text)[i][2]) \notin KnownTags

\* the type tag (lower case) the last declaration of id carries
TagOf(text, id) ==
    LET d == DeclPairs(text)
        k == CHOOSE i \in 1..Len(d) :
                 d[i][1] = id /\ \A j \in (i + 1)..Len(d) : d[j][1] # id
    IN  ToLowerCase(d[k][2])

\* the host(child,...) groups of the second bracket pair
WiringGroups(text) ==
    LET seg == RemoveBrackets(StripWhitespace(Split(text, "]")[2]))
        elements == Split(seg, ")")
        Group(e) ==
            LET g == IF Len(e) > 0 /\ e[1] = "," THEN Tail(e) ELSE e
                k == IndexOf(g, "(")
            IN  [host |-> SubSeq(g, 1, k),
                 children |-> {c \in {SubSeq(g, i, i) : i \in (k + 2)..Len(g)} :
                                  c # <<",">>}]
    IN  {Group(elements[i]) : i \in {j \in 1..Len(elements) : elements[j] # <<>>}}

HasUnknownReference(text) ==
    \E g \in WiringGroups(text) :
        \/ g.host \notin DeclaredIds(text)
        \/ \E c \in g.children : c \notin DeclaredIds(text)

\* every declared host of a wiring group is a gate
HostsAreGates(text) ==
    \A g \in WiringGroups(text) :
        g.host \in DeclaredIds(text) =>
            TagOf(text, g.host) \in {<<"not">>, <<"and">>, <<"or">>, <<"xor">>}

InputsOf(id) == {components[id].inputSet[i] : i \in 1..Len(components[id].inputSet)}

\* gate X has gate Y as input and gate Y has gate X as input
HasCycle ==
    \E x \in GateIds, y \in GateIds : y \in InputsOf(x) /\ x \in InputsOf(y)

(***************************************************************************)
(* Claims                                                                  *)
(***************************************************************************)
\* C1: in the level "[a=USERINPUT,b=NOT][b(a)][desc]", whenever gate b has
\* just been evaluated, the value returned is the negation of a's current
\* value.
C1_NotReturnsNegation ==
    (/\ levelString = NotLevel
     /\ level = "built"
     /\ last.op = "calculateOutput"
     /\ last.id = <<"b">>)
        => last.ret = <<~components[<<"a">>].state>>

\* C2: in the AND level of game.js, whenever andGate has just been
\* evaluated, the value returned is true exactly if both user inputs are
\* currently true.
C2_AndReturnsConjunction ==
    (/\ levelString = AndLevel
     /\ level = "built"
     /\ last.op = "calculateOutput"
     /\ last.id = <<"andGate">>)
        => last.ret = << components[<<"userInput1">>].state
                         /\ components[<<"userInput2">>].state >>

\* C3: once a level is constructed (or reset), a gate with inputLimit 0 has
\* every child its wiring group lists in its input set.
C3_UnboundedGateTakesAllChildren ==
    (level = "built" /\ last.op \in {"new Level", "reset"})
        => \A g \in WiringGroups(levelString) :
               (g.host \in GateIds /\ components[g.host].inputLimit = 0)
                   => g.children \subseteq InputsOf(g.host)

\* C4: a gate with a positive inputLimit never holds more inputs than that.
C4_InputLimitRespected ==
    \A id \in GateIds :
        components[id].inputLimit > 0
            => Len(components[id].inputSet) <= components[id].inputLimit

\* an over-supplied wiring group was applied and a further addInput was
\* attempted on the full gate
C4_Witness ==
    /\ levelString = OverLevel
    /\ level = "built"
    /\ last.op = "addInput"
    /\ last.id = <<"x">>
    /\ last.child = <<"c">>
    /\ components[<<"x">>].inputSet = << <<"a">>, <<"b">> >>
    /\ components[<<"n">>].inputSet = << <<"a">> >>

\* C5: gate.logic(inputs) is the reference boolean operator: NOT negates its
\* operand, AND over a non-empty list is true iff no operand is false, OR
\* over a non-empty list is true iff some operand is true, XOR over two
\* operands is true iff exactly one is true.
C5_LogicMatchesReference ==
    last.op = "logic" =>
        LET in == last.inputs
            n == Len(in)
        IN  /\ (last.type = "NotGate" /\ n = 1) => last.ret = <<~in[1]>>
            /\ (last.type = "AndGate" /\ n > 0)
                   => last.ret = <<\A i \in 1..n : in[i] # FALSE>>
            /\ (last.type = "OrGate" /\ n > 0)
                   => last.ret = <<\E i \in 1..n : in[i] = TRUE>>
            /\ (last.type = "XorGate" /\ n = 2)
                   => last.ret = <<Cardinality({i \in 1..2 : in[i] = TRUE}) = 1>>

C5_Witness ==
    /\ last.op = "logic"
    /\ last.type = "XorGate"
    /\ last.inputs = <<TRUE, TRUE>>
    /\ last.ret = <<FALSE>>

\* C6: evaluating a gate of a level whose wiring contains a cycle ends in a
\* CyclicWiring error and returns no boolean.
C6_CycleIsRejected ==
    (level = "built" /\ HasCycle /\ last.op = "calculateOutput")
        => (err = "CyclicWiring" /\ last.ret = Undefined)

\* C7: a declaration with an unrecognised type tag makes construction fail
\* with an error (UnknownGateType when every declaration has its "="), and
\* the caller is left without a Level, hence without its component map.
C7_UnknownTagFailsConstruction ==
    (level # "none" /\ HasUnknownTag(levelString))
        => /\ level = "failed"
           /\ err # "none"
           /\ WellFormedDecls(levelString) => err = "UnknownGateType"

\* the declaration before the bad one had been processed when the
\* constructor threw
C7_Witness ==
    /\ levelString = FooLevel
    /\ level = "failed"
    /\ err = "UnknownGateType"
    /\ DOMAIN components = {<<"a">>}

\* C8: when the declarations are good and the wiring hosts are gates, a
\* wiring group naming an id that is not in the component map makes
\* construction fail with UnknownComponentReference, and no gate has an
\* input that is not a component of the map.
C8_UnknownReferenceFailsConstruction ==
    (/\ level # "none"
     /\ WellFormedDecls(levelString)
     /\ ~HasUnknownTag(levelString)
     /\ HostsAreGates(levelString)
     /\ HasUnknownReference(levelString))
        => /\ level = "failed"
           /\ err = "UnknownComponentReference"
           /\ \A id \in GateIds : InputsOf(id) \subseteq DOMAIN components

\* the declared child before the missing one was wired, the missing one not
C8_Witness ==
    /\ levelString = BadChildLevel
    /\ level = "failed"
    /\ err = "UnknownComponentReference"
    /\ components[<<"x">>].inputSet = << <<"a">> >>

\* C9: a reset() leaves the level as a fresh construction from the same text
\* does: the declared ids, every UserInput false, every gate's cached output
\* unset, the wiring of the text; and a reset() right after a reset()
\* changes nothing.
C9_ResetRestoresFreshLevel ==
    [][last'.op = "reset" =>
          LET fresh == reset(EmptyMap, Undefined, levelString)
          IN  /\ err' = "none"
              /\ components' = fresh.components
              /\ description' = fresh.description
              /\ DOMAIN components' = DeclaredIds(levelString)
              /\ \A id \in DOMAIN components' :
                     /\ components'[id].type = "UserInput"
                            => components'[id].state = FALSE
                     /\ IsGate(components'[id])
                            => components'[id].stateSnapshot = Undefined
              /\ last.op = "reset"
                     => (components' = components /\ description' = description)
      ]_vars

\* a reset has undone an input added after construction
C9_Witness ==
    /\ levelString = UnderLevel
    /\ level = "built"
    /\ last.op = "reset"
    /\ components[<<"x">>].inputSet = << <<"a">> >>
    /\ components[<<"a">>].state = FALSE

\* C10: getOutput returns a boolean in every reachable state, also on a gate
\* never evaluated since construction or reset.
C10_GetOutputIsBoolean ==
    last.op = "getOutput" => last.ret \in {<<TRUE>>, <<FALSE>>}

\* C11: a ToggleOutput step flips the value of the toggled UserInput and
\* returns the new value; every other component, every gate's input set and
\* cached output, and the description stay as they were, so getOutput of
\* every gate still returns its value from before the toggle.
C11_ToggleChangesOnlyItsValue ==
    [][last'.op = "ToggleOutput" =>
          LET id == last'.id
          IN  /\ components'[id].state = ~components[id].state
              /\ last'.ret = <<components'[id].state>>
              /\ DOMAIN components' = DOMAIN components
              /\ components' = [components EXCEPT ![id].state = ~components[id].state]
              /\ \A k \in DOMAIN components :
                     IsGate(components[k])
                         => getOutput(components'[k]) = getOutput(components[k])
              /\ description' = description
      ]_vars

\* a is toggled to true while gate b keeps the output cached before
C11_Witness ==
    /\ levelString = NotLevel
    /\ level = "built"
    /\ last.op = "ToggleOutput"
    /\ last.ret = <<TRUE>>
    /\ components[<<"a">>].state = TRUE
    /\ components[<<"b">>].stateSnapshot = <<TRUE>>

\* position of the k-th occurrence of token t in s (0 if there are fewer)
RECURSIVE NthIndex(_, _, _)
NthIndex(s, t, k) ==
    LET first == IndexOf(s, t) + 1
    IN  IF first = 0 THEN 0
        ELSE IF k = 1 THEN first
        ELSE LET rest == NthIndex(SubSeq(s, first + 1, Len(s)), t, k - 1)
             IN  IF rest = 0 THEN 0 ELSE first + rest

\* the text between the k-th "[" of a block and the "]" that closes it
EnclosedText(text, k) ==
    LET open == NthIndex(text, "[", k)
        after == SubSeq(text, open + 1, Len(text))
    IN  SubSeq(after, 1, IndexOf(after, "]"))

\* C12: getDescription() returns exactly the text the third bracket pair of
\* the level block encloses.
C12_DescriptionIsThirdSegment ==
    last.op = "getDescription" => last.ret = <<EnclosedText(levelString, 3)>>

\* C13: no step made through the Map getComponents() returned - setting or
\* deleting an entry, toggling a UserInput taken from it - changes the
\* level's own component map or the values of its components.
C13_ReturnedMapIsDetached ==
    [][last'.op \in {"mapClone.set", "mapClone.delete", "mapClone.get.ToggleOutput"}
          => components' = components]_vars

\* C14: an evaluation of a gate with no wired inputs hands logic a list of
\* false operands only, of length inputLimit when that is positive and of
\* length 1 when it is 0; a NOT then returns true and an AND, OR or XOR
\* returns false.
C14_ZeroWiredPadding ==
    (/\ level = "built"
     /\ last.op = "calculateOutput"
     /\ components[last.id].inputSet = <<>>)
        => LET limit == components[last.id].inputLimit
           IN  /\ err = "none"
               /\ Len(last.results) = (IF limit > 0 THEN limit ELSE 1)
               /\ \A i \in 1..Len(last.results) : last.results[i] = FALSE
               /\ last.ret = <<components[last.id].type = "NotGate">>

\* an unwired NOT has been evaluated to true after an unwired XOR was
\* evaluated to false
C14_Witness ==
    /\ levelString = ZeroLevel
    /\ level = "built"
    /\ last.op = "calculateOutput"
    /\ last.id = <<"n">>
    /\ components[<<"n">>].inputSet = <<>>
    /\ last.results = <<FALSE>>
    /\ last.ret = <<TRUE>>
    /\ components[<<"x">>].inputSet = <<>>
    /\ components[<<"x">>].stateSnapshot = <<FALSE>>

Count(s, t) == Cardinality({i \in 1..Len(s) : s[i] = t})

\* the level texts of levels i.. of the list, one after the other
RECURSIVE JoinLevelStrings(_, _)
JoinLevelStrings(levels, i) ==
    IF i > Len(levels) THEN <<>>
    ELSE levels[i].levelString \o JoinLevelStrings(levels, i + 1)

\* closing brackets the loop has still to pass, weighted so that every
\* iteration of the loop lowers the number: a search step passes one
\* bracket, a level-building step clears bracketsFound, the last step leaves
\* the loop
LoopVariant(g) ==
    IF g.pc = "loop"
    THEN 4 * Count(SubstringFrom(g.gameString, g.cursor), "]") + g.bracketsFound + 1
    ELSE 0

\* C16: for a text of level blocks with n closing brackets, the Game
\* constructor's loop terminates (every iteration lowers a natural-valued
\* variant), and when it has ended the level list has exactly n \div 3
\* levels, each built from a slice with exactly three closing brackets, the
\* slices followed by the unconsumed rest are the source text in order
\* (whitespace between them aside), and the rest, with fewer than three
\* closing brackets, has produced no level.
C16_LoopSplitsBracketTriples ==
    [][/\ game.pc = "loop" =>
              (LoopVariant(game') < LoopVariant(game) /\ LoopVariant(game') >= 0)
       /\ game'.pc # "thrown"
       /\ game'.pc = "ready" =>
              LET n == Count(game'.source, "]")
              IN  /\ Len(game'.levels) = n \div 3
                  /\ \A i \in 1..Len(game'.levels) :
                         Count(game'.levels[i].levelString, "]") = 3
                  /\ StripWhitespace(JoinLevelStrings(game'.levels, 1)
                                         \o game'.gameString)
                         = StripWhitespace(game'.source)
                  /\ Count(game'.gameString, "]") = n % 3
      ]_vars

\* two levels were built and the trailing piece with two closing brackets
\* was left over
C16_Witness ==
    /\ game.pc = "ready"
    /\ game.source = TwoBlocksAndTail
    /\ Len(game.levels) = 2
    /\ game.levels[1].levelString = NotLevel
    /\ game.levels[2].levelString = ZeroLevel
    /\ Count(game.gameString, "]") = 2

\* C18: once the Game is constructed with at least one level, the current
\* level number is an index of the level list after any nextLevel,
\* previousLevel and resetLevel calls, and resetLevel finds a level to reset.
C18_CurrentLevelInRange ==
    (game.pc = "ready" /\ Len(game.levels) >= 1)
        => /\ 0 <= game.currentLevel
           /\ game.currentLevel < Len(game.levels)
           /\ game.op = "resetLevel" => game.err = "none"

\* C17: in the draft source the reductions do what their comments state for
\* every boolean operand list: AndGate.logic returns false if any operand is
\* false, OrGate.logic returns true if any operand is true, and XorGate.logic
\* over two operands returns true iff exactly one operand is true.
C17_DraftLogicMatchesComments ==
    last.op = "draftLogic" =>
        LET in == last.inputs
            n == Len(in)
        IN  /\ (last.type = "AndGate" /\ \E i \in 1..n : in[i] = FALSE)
                   => last.ret = <<FALSE>>
            /\ (last.type = "OrGate" /\ \E i \in 1..n : in[i] = TRUE)
                   => last.ret = <<TRUE>>
            /\ (last.type = "XorGate" /\ n = 2)
                   => last.ret = <<Cardinality({i \in 1..2 : in[i] = TRUE}) = 1>>

====
